---- MODULE Spec2Model ----
(***************************************************************************)
(* Model of the Bible book statistics chart of the lifestats dashboard     *)
(* (frontend/src/lib/components/BookStatsChart.svelte): the input props,   *)
(* the view-mode selector, the reactive derivations ($derived), the        *)
(* testament divider plugin, the tooltip callbacks and the template; and   *)
(* of the chart data and tooltip callbacks of the weekly church chart and  *)
(* the tick callback of the y axis of the weekly study chart.              *)
(*                                                                         *)
(* JavaScript arrays are 0-based and TLA+ sequences are 1-based: the       *)
(* element at JavaScript index k is the element k + 1 of the sequence.     *)
(* Indices that the program computes (ntStartIndex) keep their JavaScript  *)
(* value.                                                                  *)
(***************************************************************************)
EXTENDS Integers, Sequences, FiniteSets, TLC

VARIABLES
    data,           \* the BibleStats prop, received at construction
    viewMode,       \* let viewMode: ViewMode = $state('verses')
    combinedBooks,  \* const combinedBooks, built once at construction
    hookCall,       \* the latest invocation of the divider hook: its chart's label count, its options and canvas operations
    tooltipCall,    \* the latest invocation of a tooltip callback: its items and its result
    weeklyStats,    \* the FaithWeeklyStats prop of the weekly church and study charts
    tickCall        \* the latest invocation of a y-axis tick callback: its value and its result

vars == <<data, viewMode, combinedBooks, hookCall, tooltipCall, weeklyStats, tickCall>>

(***************************************************************************)
(* Bounds of the model.                                                    *)
(***************************************************************************)
MaxBooks == 2       \* book records per testament in the input
MaxNtIdx == 4       \* largest ntStartIndex option handed to the divider hook
MaxLabels == 3      \* labels of the other charts the divider hook is run on
MaxItems == 3       \* largest number of tooltip items handed to a footer callback
MaxWeeks == 2       \* weeks in the weekly statistics
MaxTick == 130      \* largest numeric tick value handed to a tick callback
MaxChars == 3       \* longest string tick value handed to a tick callback

(***************************************************************************)
(* Array.prototype.map is written as the function [i \in DOMAIN arr |->   *)
(* ...arr[i]...] and Array.prototype.filter as SelectSeq.                  *)
(***************************************************************************)
(***************************************************************************)
(* The view modes.                                                         *)
(***************************************************************************)
ViewMode == {"verses", "passages"}

(***************************************************************************)
(* chartColors (theme/chartColors.ts): the Tailwind palette entries are    *)
(* kept as their palette names.                                            *)
(***************************************************************************)
chartColors ==
    [book |->
        [oldTestament |-> [mature |-> "blue-600", young |-> "blue-400",
                           learning |-> "blue-200", border |-> "blue-700",
                           hover |-> "blue-700"],
         newTestament |-> [mature |-> "purple-600", young |-> "purple-400",
                           learning |-> "purple-200", border |-> "purple-700",
                           hover |-> "purple-700"]],
     label |-> [red |-> "red-600", gray |-> "gray-500"],
     grid |-> [gray |-> "gray-200"]]

(***************************************************************************)
(* Inputs.  A BookStats record carries the book's name and three tiers in  *)
(* two units; a testament carries its book records and its own six         *)
(* aggregate fields, computed by the backend.                              *)
(***************************************************************************)
OTNames == <<"Genesis", "Exodus", "Psalms", "Isaiah", "Daniel">>
NTNames == <<"Matthew", "John", "Romans", "James", "Jude">>

\* The per-book tier values the inputs are drawn from: nothing memorised;
\* passages only (verses 0,0,0 and passages 3,0,0); verses only (2,0,5);
\* both units.
TierValues ==
    { [mature_verses |-> 0, young_verses |-> 0, learning_verses |-> 0,
       mature_passages |-> 0, young_passages |-> 0, learning_passages |-> 0],
      [mature_verses |-> 0, young_verses |-> 0, learning_verses |-> 0,
       mature_passages |-> 3, young_passages |-> 0, learning_passages |-> 0],
      [mature_verses |-> 2, young_verses |-> 0, learning_verses |-> 5,
       mature_passages |-> 0, young_passages |-> 0, learning_passages |-> 0],
      [mature_verses |-> 1, young_verses |-> 1, learning_verses |-> 0,
       mature_passages |-> 0, young_passages |-> 1, learning_passages |-> 1] }

TierFields ==
    {"mature_verses", "young_verses", "learning_verses",
     "mature_passages", "young_passages", "learning_passages"}

\* The book_stats arrays: up to MaxBooks records, named in canonical order.
BookStatsArrays(names) ==
    UNION { { [i \in 1..n |-> [book |-> names[i]] @@ v[i]] : v \in [1..n -> TierValues] }
            : n \in 0..MaxBooks }

RECURSIVE SumField(_, _)
SumField(books, f) ==
    IF books = <<>> THEN 0 ELSE books[1][f] + SumField(Tail(books), f)

\* The testament aggregates that are the sums of the testament's book records.
BookSums(books) == [f \in TierFields |-> SumField(books, f)]

\* The aggregates come from the backend, not from the component: an input
\* carries either the sums of its book records or aggregates that count more
\* than the listed books do.
Aggregates(books) ==
    { BookSums(books),
      [BookSums(books) EXCEPT !.learning_verses = @ + 1, !.mature_passages = @ + 2] }

TestamentStats(names) ==
    UNION { { [book_stats |-> books] @@ agg : agg \in Aggregates(books) }
            : books \in BookStatsArrays(names) }

BibleStats ==
    [old_testament : TestamentStats(OTNames), new_testament : TestamentStats(NTNames)]

Consistent(testament) ==
    \A f \in TierFields : testament[f] = SumField(testament.book_stats, f)

(***************************************************************************)
(* Construction: the combined list, OT records first and NT records after, *)
(* each a copy of the input record with its testament added.               *)
(***************************************************************************)
\* Mutation of CombineBooks: the NT records are placed before the OT records.
CombineBooksNTFirst(d) ==
    [i \in DOMAIN d.new_testament.book_stats |->
        [testament |-> "NT"] @@ d.new_testament.book_stats[i]]
    \o [i \in DOMAIN d.old_testament.book_stats |->
        [testament |-> "OT"] @@ d.old_testament.book_stats[i]]

CombineBooks(d) ==
    [i \in DOMAIN d.old_testament.book_stats |->
        [testament |-> "OT"] @@ d.old_testament.book_stats[i]]
    \o [i \in DOMAIN d.new_testament.book_stats |->
        [testament |-> "NT"] @@ d.new_testament.book_stats[i]]

(***************************************************************************)
(* Filtering by the view mode.                                             *)
(***************************************************************************)
\* Mutation of hasData: the verses decide in either mode.
hasDataVersesOnly(book, mode) ==
    book.mature_verses > 0 \/ book.young_verses > 0 \/ book.learning_verses > 0

hasData(book, mode) ==
    IF mode = "verses"
    THEN book.mature_verses > 0 \/ book.young_verses > 0 \/ book.learning_verses > 0
    ELSE book.mature_passages > 0 \/ book.young_passages > 0 \/ book.learning_passages > 0

\* Mutation of combinedBooksFiltered: filtered once, with the mode of the mount.
combinedBooksFilteredAtMount == SelectSeq(combinedBooks, LAMBDA book : hasData(book, "verses"))

RECURSIVE SortByValue(_, _)
SortByValue(books, mode) ==
    IF books = << >> THEN << >>
    ELSE LET total(b) == IF mode = "verses"
                         THEN b.mature_verses + b.young_verses + b.learning_verses
                         ELSE b.mature_passages + b.young_passages + b.learning_passages
             top == CHOOSE i \in DOMAIN books :
                        /\ \A j \in DOMAIN books : total(books[i]) >= total(books[j])
                        /\ \A j \in 1..(i - 1) : total(books[j]) < total(books[i])
         IN  << books[top] >>
             \o SortByValue(SubSeq(books, 1, top - 1) \o SubSeq(books, top + 1, Len(books)), mode)

\* Mutation of combinedBooksFiltered: the visible books ordered by their total.
combinedBooksFilteredByValue ==
    SortByValue(SelectSeq(combinedBooks, LAMBDA book : hasData(book, viewMode)), viewMode)

combinedBooksFiltered == SelectSeq(combinedBooks, LAMBDA book : hasData(book, viewMode))

\* Mutation of otBooksFiltered: the OT books are filtered by their verses.
otBooksFilteredByVerses ==
    SelectSeq(data.old_testament.book_stats, LAMBDA book : hasData(book, "verses"))

otBooksFiltered ==
    SelectSeq(data.old_testament.book_stats, LAMBDA book : hasData(book, viewMode))

ntBooksFiltered ==
    SelectSeq(data.new_testament.book_stats, LAMBDA book : hasData(book, viewMode))

\* Mutation of ntStartIndex: the index found in the list of the mount.
ntStartIndexAtMount ==
    LET books == SelectSeq(combinedBooks, LAMBDA book : hasData(book, "verses"))
    IN  IF \E i \in DOMAIN books : books[i].testament = "NT"
        THEN (CHOOSE i \in DOMAIN books :
                  /\ books[i].testament = "NT"
                  /\ \A j \in DOMAIN books : books[j].testament = "NT" => i <= j) - 1
        ELSE -1

\* The index where the NT books start in the combined, filtered list.
\* findIndex gives the 0-based index of the first match, or -1 without one.
ntStartIndex ==
    LET books == combinedBooksFiltered
    IN  IF \E i \in DOMAIN books : books[i].testament = "NT"
        THEN (CHOOSE i \in DOMAIN books :
                  /\ books[i].testament = "NT"
                  /\ \A j \in DOMAIN books : books[j].testament = "NT" => i <= j) - 1
        ELSE -1

\* The value of a tier of a book in the current view mode.
\* Mutation of getValue: the verses in either mode.
getValueVersesOnly(book, field) == book[field \o "_verses"]

getValue(book, field) ==
    IF viewMode = "verses"
    THEN book[field \o "_verses"]
    ELSE book[field \o "_passages"]

\* Mutation of unitLabel: the unit of the mount, not recomputed.
unitLabelAtMount == "verses"

unitLabel == IF viewMode = "verses" THEN "verses" ELSE "passages"

(***************************************************************************)
(* The chart data of the combined (desktop) chart: labels and three        *)
(* stacked datasets with per-bar colour arrays.                            *)
(***************************************************************************)
combinedDataset(label, field) ==
    [label |-> label,
     data |-> [i \in DOMAIN combinedBooksFiltered |->
         getValue(combinedBooksFiltered[i], field)],
     backgroundColor |-> [i \in DOMAIN combinedBooksFiltered |->
         IF combinedBooksFiltered[i].testament = "OT"
         THEN chartColors.book.oldTestament[field]
         ELSE chartColors.book.newTestament[field]],
     borderColor |-> [i \in DOMAIN combinedBooksFiltered |->
         IF combinedBooksFiltered[i].testament = "OT"
         THEN chartColors.book.oldTestament.border
         ELSE chartColors.book.newTestament.border],
     borderWidth |-> 1,
     borderRadius |-> 4,
     hoverBackgroundColor |-> [i \in DOMAIN combinedBooksFiltered |->
         IF combinedBooksFiltered[i].testament = "OT"
         THEN chartColors.book.oldTestament.hover
         ELSE chartColors.book.newTestament.hover],
     stack |-> "stack0"]

combinedChartData ==
    [labels |-> [i \in DOMAIN combinedBooksFiltered |-> combinedBooksFiltered[i].book],
     datasets |-> << combinedDataset("Mature", "mature"),
                     combinedDataset("Young", "young"),
                     combinedDataset("Learning", "learning") >>]

\* The options of the combined chart (the callbacks are footer and label
\* below; the fixed legend and x axis entries are left out).
combinedOptions ==
    [plugins |-> [testamentDivider |-> [ntStartIndex |-> ntStartIndex]],
     scales |-> [y |-> [title |->
         [display |-> TRUE,
          text |-> IF viewMode = "verses" THEN "Verses" ELSE "Passages"]]]]

(***************************************************************************)
(* The chart data of the two mobile charts, one per testament.             *)
(***************************************************************************)
createTestamentChartData(books, colors, mode) ==
    [labels |-> [i \in DOMAIN books |-> books[i].book],
     datasets |-> <<
        [label |-> "Mature",
         data |-> [i \in DOMAIN books |->
             IF mode = "verses" THEN books[i].mature_verses ELSE books[i].mature_passages],
         backgroundColor |-> colors.mature, borderColor |-> colors.border,
         borderWidth |-> 1, borderRadius |-> 4,
         hoverBackgroundColor |-> colors.hover, stack |-> "stack0"],
        [label |-> "Young",
         data |-> [i \in DOMAIN books |->
             IF mode = "verses" THEN books[i].young_verses ELSE books[i].young_passages],
         backgroundColor |-> colors.young, borderColor |-> colors.border,
         borderWidth |-> 1, borderRadius |-> 4,
         hoverBackgroundColor |-> colors.hover, stack |-> "stack0"],
        [label |-> "Learning",
         data |-> [i \in DOMAIN books |->
             IF mode = "verses" THEN books[i].learning_verses ELSE books[i].learning_passages],
         backgroundColor |-> colors.learning, borderColor |-> colors.border,
         borderWidth |-> 1, borderRadius |-> 4,
         hoverBackgroundColor |-> colors.hover, stack |-> "stack0"] >>]

otChartData ==
    createTestamentChartData(otBooksFiltered, chartColors.book.oldTestament, viewMode)

ntChartData ==
    createTestamentChartData(ntBooksFiltered, chartColors.book.newTestament, viewMode)

mobileOptions ==
    [plugins |-> [testamentDivider |-> FALSE],
     scales |-> [y |-> [title |->
         [display |-> TRUE,
          text |-> IF viewMode = "verses" THEN "Verses" ELSE "Passages"]]]]

(***************************************************************************)
(* The statistics of the table, read from the testament aggregates of the  *)
(* input in the current view mode.                                         *)
(***************************************************************************)
\* Mutation of otLearning: the verses in either mode.
otLearningVersesOnly == data.old_testament.learning_verses

otLearning ==
    IF viewMode = "verses"
    THEN data.old_testament.learning_verses
    ELSE data.old_testament.learning_passages

otYoung ==
    IF viewMode = "verses"
    THEN data.old_testament.young_verses
    ELSE data.old_testament.young_passages

otMature ==
    IF viewMode = "verses"
    THEN data.old_testament.mature_verses
    ELSE data.old_testament.mature_passages

\* Mutation of otTotal: the mature tier is left out.
otTotalWithoutMature == otLearning + otYoung

otTotal == otLearning + otYoung + otMature

ntLearning ==
    IF viewMode = "verses"
    THEN data.new_testament.learning_verses
    ELSE data.new_testament.learning_passages

ntYoung ==
    IF viewMode = "verses"
    THEN data.new_testament.young_verses
    ELSE data.new_testament.young_passages

ntMature ==
    IF viewMode = "verses"
    THEN data.new_testament.mature_verses
    ELSE data.new_testament.mature_passages

ntTotal == ntLearning + ntYoung + ntMature

totalLearning == otLearning + ntLearning

totalYoung == otYoung + ntYoung

totalMature == otMature + ntMature

grandTotal == totalLearning + totalYoung + totalMature

\* Mutation of viewModeOptions: the control offers a third value.
viewModeOptionsWithChapters ==
    << [value |-> "verses", label |-> "Verses"],
       [value |-> "passages", label |-> "Passages"],
       [value |-> "chapters", label |-> "Chapters"] >>

viewModeOptions ==
    << [value |-> "verses", label |-> "Verses"],
       [value |-> "passages", label |-> "Passages"] >>

(***************************************************************************)
(* The template: the charts that are mounted and the cells of the tables.  *)
(***************************************************************************)
\* The <Bar> components the template mounts, in document order: the two
\* mobile charts under their {#if} blocks, then the desktop chart.
mountedCharts ==
    (IF Len(otBooksFiltered) > 0
     THEN << [host |-> "mobile-ot", data |-> otChartData, options |-> mobileOptions] >>
     ELSE << >>)
    \o (IF Len(ntBooksFiltered) > 0
        THEN << [host |-> "mobile-nt", data |-> ntChartData, options |-> mobileOptions] >>
        ELSE << >>)
    \o << [host |-> "desktop", data |-> combinedChartData, options |-> combinedOptions] >>

\* The desktop table: one row per testament and the total row.
desktopTable ==
    << [name |-> "Old Testament", learning |-> otLearning, young |-> otYoung,
        mature |-> otMature, total |-> otTotal],
       [name |-> "New Testament", learning |-> ntLearning, young |-> ntYoung,
        mature |-> ntMature, total |-> ntTotal],
       [name |-> "Total", learning |-> totalLearning, young |-> totalYoung,
        mature |-> totalMature, total |-> grandTotal] >>

\* The mobile table: one row per tier and the total row, one column per
\* testament and the total column.
mobileTable ==
    << [name |-> "Learning", ot |-> otLearning, nt |-> ntLearning, total |-> totalLearning],
       [name |-> "Young", ot |-> otYoung, nt |-> ntYoung, total |-> totalYoung],
       [name |-> "Mature", ot |-> otMature, nt |-> ntMature, total |-> totalMature],
       [name |-> "Total", ot |-> otTotal, nt |-> ntTotal, total |-> grandTotal] >>

(***************************************************************************)
(* The testament divider plugin.  The hook receives the chart and the      *)
(* options of the plugin for that chart; an options object without         *)
(* ntStartIndex is a record without that field (options.ntStartIndex is    *)
(* then undefined).  The result is the list of operations performed on     *)
(* the canvas context.                                                     *)
(***************************************************************************)
\* The chart handed to the hook by the charting engine: its area and a
\* category x scale that places index v at left + v * step.
Chart ==
    [chartArea |-> [top |-> 10, bottom |-> 210],
     scales |-> [x |-> [left |-> 40, step |-> 20]]]

getPixelForValue(xScale, v) == xScale.left + v * xScale.step

\* Mutation of afterDatasetsDraw: an index of 0 is not skipped.
afterDatasetsDrawNoZeroCheck(chart, options) ==
    IF \/ "ntStartIndex" \notin DOMAIN options
       \/ options.ntStartIndex = -1
    THEN << >>
    ELSE LET ntIdx == options.ntStartIndex
             xScale == chart.scales.x
             lastOTPosition == getPixelForValue(xScale, ntIdx - 1)
             firstNTPosition == getPixelForValue(xScale, ntIdx)
             dividerX == (lastOTPosition + firstNTPosition) \div 2
         IN  << [op |-> "save"],
                [op |-> "strokeStyle", value |-> chartColors.label.gray],
                [op |-> "lineWidth", value |-> 2],
                [op |-> "setLineDash", value |-> <<5, 5>>],
                [op |-> "beginPath"],
                [op |-> "moveTo", x |-> dividerX, y |-> chart.chartArea.top],
                [op |-> "lineTo", x |-> dividerX, y |-> chart.chartArea.bottom],
                [op |-> "stroke"],
                [op |-> "restore"] >>

afterDatasetsDraw(chart, options) ==
    IF \/ "ntStartIndex" \notin DOMAIN options
       \/ options.ntStartIndex = -1
       \/ options.ntStartIndex = 0
    THEN << >>
    ELSE LET ntIdx == options.ntStartIndex
             xScale == chart.scales.x
             lastOTPosition == getPixelForValue(xScale, ntIdx - 1)
             firstNTPosition == getPixelForValue(xScale, ntIdx)
             dividerX == (lastOTPosition + firstNTPosition) \div 2
         IN  << [op |-> "save"],
                [op |-> "strokeStyle", value |-> chartColors.label.gray],
                [op |-> "lineWidth", value |-> 2],
                [op |-> "setLineDash", value |-> <<5, 5>>],
                [op |-> "beginPath"],
                [op |-> "moveTo", x |-> dividerX, y |-> chart.chartArea.top],
                [op |-> "lineTo", x |-> dividerX, y |-> chart.chartArea.bottom],
                [op |-> "stroke"],
                [op |-> "restore"] >>

\* The options objects a chart of the page can hand to the hook (the plugin
\* is registered globally): none set, or an ntStartIndex, which the type
\* { ntStartIndex?: number } lets be any number.
DividerOptions ==
    { [n \in {} |-> 0] } \cup { [ntStartIndex |-> v] : v \in (-2)..MaxNtIdx }

(***************************************************************************)
(* The tooltip footer callbacks.  A tooltip item is [parsed |-> [y |-> v]] *)
(* where v is null or a number; null is the empty tuple and the number n   *)
(* the one-element tuple <<n>>, so that the two are told apart as the      *)
(* ?? operator tells them apart.                                           *)
(***************************************************************************)
null == << >>

Num(n) == << n >>

\* y ?? 0
OrZero(y) == IF y = null THEN 0 ELSE y[1]

RECURSIVE ReduceSum(_, _)
\* tooltipItems.reduce((sum, item) => sum + (item.parsed.y ?? 0), sum), from
\* the left.
ReduceSum(tooltipItems, sum) ==
    IF tooltipItems = << >>
    THEN sum
    ELSE ReduceSum(Tail(tooltipItems), sum + OrZero(tooltipItems[1].parsed.y))

\* A tooltip context is [dataset |-> ..., parsed |-> [y |-> v]]; a dataset
\* without a label is a record without that field.  label || '' gives ''
\* for a missing and for an empty label.
\* Mutation of combinedLabel: a missing label is not replaced by ''.
combinedLabelNoDefault(context) ==
    LET value == OrZero(context.parsed.y)
        label == IF "label" \in DOMAIN context.dataset
                 THEN context.dataset.label
                 ELSE "undefined"
    IN  label \o ": " \o ToString(value) \o " " \o unitLabel

combinedLabel(context) ==
    LET value == OrZero(context.parsed.y)
        label == IF "label" \in DOMAIN context.dataset /\ context.dataset.label # ""
                 THEN context.dataset.label
                 ELSE ""
    IN  label \o ": " \o ToString(value) \o " " \o unitLabel

mobileLabel(context) ==
    LET value == OrZero(context.parsed.y)
        label == IF "label" \in DOMAIN context.dataset /\ context.dataset.label # ""
                 THEN context.dataset.label
                 ELSE ""
    IN  label \o ": " \o ToString(value) \o " " \o unitLabel

\* Mutation of combinedFooter: the unit is always verses.
combinedFooterVersesOnly(tooltipItems) ==
    LET total == ReduceSum(tooltipItems, 0)
    IN  "Total: " \o ToString(total) \o " verses"

combinedFooter(tooltipItems) ==
    LET total == ReduceSum(tooltipItems, 0)
    IN  "Total: " \o ToString(total) \o " " \o unitLabel

mobileFooter(tooltipItems) ==
    LET total == ReduceSum(tooltipItems, 0)
    IN  "Total: " \o ToString(total) \o " " \o unitLabel

\* The parsed values the tooltip items are drawn from.
ParsedY == { null, Num(0), Num(2), Num(5) }

TooltipItems ==
    UNION { [1..n -> { [parsed |-> [y |-> v]] : v \in ParsedY }] : n \in 0..MaxItems }

\* The contexts the label callbacks are applied to: the three datasets of
\* the charts, a dataset with an empty label and one without a label.
TooltipContexts ==
    { [dataset |-> ds, parsed |-> [y |-> v]] :
        ds \in { [label |-> l] : l \in {"Mature", "Young", "Learning", ""} }
               \cup { [n \in {} |-> 0] },
        v \in ParsedY }

(***************************************************************************)
(* JavaScript values that may be undefined.  Values are tuples of integers *)
(* so that any two of them can be compared: null is the empty tuple and    *)
(* the number n the tuple <<n>> (above); undefined and NaN are the tuples  *)
(* of length two and three.                                                *)
(***************************************************************************)
undefined == << 0, 0 >>

NaN == << 0, 0, 0 >>

\* obj[field] of JavaScript: undefined when the object has no such field.
Get(obj, field) == IF field \in DOMAIN obj THEN Num(obj[field]) ELSE undefined

\* arr[k] of JavaScript for a 0-based index k: undefined beyond the end.
At(arr, k) == IF k + 1 \in DOMAIN arr THEN arr[k + 1] ELSE undefined

\* a + b of JavaScript on numbers, null, undefined and NaN: null counts as
\* 0, undefined and NaN give NaN.
JsAdd(a, b) ==
    IF Len(a) <= 1 /\ Len(b) <= 1
    THEN Num(OrZero(a) + OrZero(b))
    ELSE NaN

\* v || 0 for a number, null, undefined or NaN v: the number itself unless
\* it is 0, where the result is 0 as well.
OrDefaultZero(v) == IF Len(v) = 1 THEN v[1] ELSE 0

(***************************************************************************)
(* The totals of the tables as JavaScript computes them when a field of    *)
(* the input may be missing: each tier total is read from the testament    *)
(* and the sums are taken with +.                                          *)
(***************************************************************************)
tableTotals ==
    LET tier(testament, t) ==
            IF viewMode = "verses"
            THEN Get(testament, t \o "_verses")
            ELSE Get(testament, t \o "_passages")
        otL == tier(data.old_testament, "learning")
        otY == tier(data.old_testament, "young")
        otM == tier(data.old_testament, "mature")
        ntL == tier(data.new_testament, "learning")
        ntY == tier(data.new_testament, "young")
        ntM == tier(data.new_testament, "mature")
    IN  [otLearning |-> otL, otYoung |-> otY, otMature |-> otM,
         otTotal |-> JsAdd(JsAdd(otL, otY), otM),
         ntLearning |-> ntL, ntYoung |-> ntY, ntMature |-> ntM,
         ntTotal |-> JsAdd(JsAdd(ntL, ntY), ntM),
         totalLearning |-> JsAdd(otL, ntL),
         totalYoung |-> JsAdd(otY, ntY),
         totalMature |-> JsAdd(otM, ntM),
         grandTotal |-> JsAdd(JsAdd(JsAdd(otL, ntL), JsAdd(otY, ntY)), JsAdd(otM, ntM))]

(***************************************************************************)
(* The weekly church chart (WeeklyChurchChart.svelte) and the y axis of    *)
(* the weekly study chart (WeeklyStudyChart.svelte).  Both receive the     *)
(* FaithWeeklyStats of the page as their data prop.                        *)
(***************************************************************************)
\* The at_church_daily_minutes arrays of the inputs, Sunday first.
DayMinutes ==
    LET week(f) == [i \in 1..7 |-> f[i]]
        zero == [i \in 1..7 |-> Num(0)]
    IN  { zero,
          week([zero EXCEPT ![1] = Num(90)]),
          week([zero EXCEPT ![1] = Num(60), ![4] = Num(45)]),
          week([zero EXCEPT ![4] = undefined, ![7] = Num(30)]),
          week([zero EXCEPT ![3] = Num(20), ![5] = null]),
          << Num(75) >> }

\* The week_start of the i-th week, as the fields of its ISO date string.
WeekStart(i) == [year |-> 2025, month |-> 3, day |-> 2 + 7 * (i - 1)]

FaithWeeklyStats ==
    UNION { { [weeks |-> [i \in 1..n |-> [week_start |-> WeekStart(i),
                                          at_church_daily_minutes |-> m[i]]]] :
                m \in [1..n -> DayMinutes] }
            : n \in 0..MaxWeeks }

dayNames ==
    <<"Sunday", "Monday", "Tuesday", "Wednesday", "Thursday", "Friday", "Saturday">>

\* colors.orange of the Tailwind palette, named by its shade.
dayColors ==
    << [bg |-> "orange-800", border |-> "orange-900", hover |-> "orange-900"],
       [bg |-> "orange-700", border |-> "orange-800", hover |-> "orange-800"],
       [bg |-> "orange-600", border |-> "orange-700", hover |-> "orange-700"],
       [bg |-> "orange-500", border |-> "orange-600", hover |-> "orange-600"],
       [bg |-> "orange-400", border |-> "orange-500", hover |-> "orange-500"],
       [bg |-> "orange-300", border |-> "orange-400", hover |-> "orange-400"],
       [bg |-> "orange-200", border |-> "orange-300", hover |-> "orange-300"] >>

\* Temporal.PlainDate.from(dateStr) gives the fields of the date.
formatDate(dateStr) == ToString(dateStr.month) \o "/" \o ToString(dateStr.day)

\* The dataset of one day of the week, before the filter; dayIndex is 0-based.
churchDataset(dayIndex) ==
    [label |-> dayNames[dayIndex + 1],
     data |-> [w \in DOMAIN weeklyStats.weeks |->
         OrDefaultZero(At(weeklyStats.weeks[w].at_church_daily_minutes, dayIndex))],
     backgroundColor |-> dayColors[dayIndex + 1].bg,
     borderColor |-> dayColors[dayIndex + 1].border,
     borderWidth |-> 1,
     borderRadius |-> 4,
     hoverBackgroundColor |-> dayColors[dayIndex + 1].hover,
     stack |-> "stack0"]

\* Mutation of churchChartData: the colours are taken by the position of
\* the dataset after the filter.
churchChartDataColoursByPosition ==
    LET kept == SelectSeq([i \in DOMAIN dayNames |-> churchDataset(i - 1)],
                          LAMBDA dataset : \E w \in DOMAIN dataset.data : dataset.data[w] > 0)
    IN  [labels |-> [w \in DOMAIN weeklyStats.weeks |->
                        formatDate(weeklyStats.weeks[w].week_start)],
         datasets |-> [p \in DOMAIN kept |->
                          [kept[p] EXCEPT !.backgroundColor = dayColors[p].bg,
                                          !.borderColor = dayColors[p].border,
                                          !.hoverBackgroundColor = dayColors[p].hover]]]

churchChartData ==
    [labels |-> [w \in DOMAIN weeklyStats.weeks |->
                    formatDate(weeklyStats.weeks[w].week_start)],
     datasets |-> SelectSeq([i \in DOMAIN dayNames |-> churchDataset(i - 1)],
                            LAMBDA dataset : \E w \in DOMAIN dataset.data : dataset.data[w] > 0)]

\* formatMinutesToHoursMinutes of $lib/utils/timeFormat: the minutes alone
\* below one hour ("59m"), and hours and minutes by integer division with
\* remainder from one hour on ("1h 0m", "2h 5m").
formatMinutesToHoursMinutes(minutes) ==
    IF minutes \div 60 = 0
    THEN ToString(minutes) \o "m"
    ELSE ToString(minutes \div 60) \o "h " \o ToString(minutes % 60) \o "m"

\* The tooltip callbacks of the church chart.
churchLabel(context) ==
    LET minutes == OrZero(context.parsed.y)
        day == IF "label" \in DOMAIN context.dataset /\ context.dataset.label # ""
               THEN context.dataset.label
               ELSE ""
    IN  day \o ": " \o formatMinutesToHoursMinutes(minutes)

churchFooter(tooltipItems) ==
    LET total == ReduceSum(tooltipItems, 0)
    IN  "Total: " \o formatMinutesToHoursMinutes(total)

(***************************************************************************)
(* The tick callback of the y axis of the weekly study chart.  A tick      *)
(* value is a number, [type |-> "number", value |-> n], or a string,       *)
(* [type |-> "string", chars |-> <<c1, ..., ck>>] with its characters.     *)
(***************************************************************************)
Digits == <<"0", "1", "2", "3", "4", "5", "6", "7", "8", "9">>

IsDigit(c) == \E d \in DOMAIN Digits : Digits[d] = c

DigitValue(c) == (CHOOSE d \in DOMAIN Digits : Digits[d] = c) - 1

\* parseFloat on a string of digits and other, non-numeric characters: the
\* number written by the longest prefix of digits, NaN without such a prefix.
RECURSIVE parseDigits(_, _)
parseDigits(chars, acc) ==
    IF chars = << >> \/ ~IsDigit(Head(chars))
    THEN acc
    ELSE parseDigits(Tail(chars), 10 * acc + DigitValue(Head(chars)))

parseFloat(chars) ==
    IF chars = << >> \/ ~IsDigit(Head(chars)) THEN NaN ELSE Num(parseDigits(chars, 0))

\* Mutation of studyTickCallback: every tick is labelled.
studyTickCallbackEveryTick(value) ==
    LET minutes == IF value.type = "number" THEN Num(value.value) ELSE parseFloat(value.chars)
    IN  IF minutes # NaN
        THEN formatMinutesToHoursMinutes(minutes[1])
        ELSE "NaNm"

studyTickCallback(value) ==
    LET minutes == IF value.type = "number" THEN Num(value.value) ELSE parseFloat(value.chars)
    IN  IF minutes # NaN /\ minutes[1] % 60 = 0
        THEN formatMinutesToHoursMinutes(minutes[1])
        ELSE ""

\* The tick values handed to the callback: the minutes 0..MaxTick and the
\* strings of at most MaxChars characters of TickChars.
TickChars == {"0", "1", "2", "3", "6", "m"}

TickValues ==
    { [type |-> "number", value |-> n] : n \in 0..MaxTick }
    \cup UNION { { [type |-> "string", chars |-> c] : c \in [1..k -> TickChars] }
                 : k \in 0..MaxChars }

(***************************************************************************)
(* The state machine.                                                      *)
(***************************************************************************)
NoHookCall ==
    [called |-> FALSE, labels |-> 0, options |-> [n \in {} |-> 0], canvas |-> << >>]

NoTooltipCall ==
    [called |-> FALSE, callback |-> "", chart |-> "", items |-> << >>,
     viewMode |-> "", text |-> ""]

\* Mutation of Mount: the testament is written into the records of the
\* input, and the combined list holds those same records.
MountTaggingInput(d) ==
    LET tagged(books, t) == [i \in DOMAIN books |-> [testament |-> t] @@ books[i]]
        ot == tagged(d.old_testament.book_stats, "OT")
        nt == tagged(d.new_testament.book_stats, "NT")
    IN  [data |-> [old_testament |-> [d.old_testament EXCEPT !.book_stats = ot],
                   new_testament |-> [d.new_testament EXCEPT !.book_stats = nt]],
         combinedBooks |-> ot \o nt]

\* The component is created with the prop d: the prop is kept as it was
\* received and the combined list is built from copies of its records.
Mount(d) == [data |-> d, combinedBooks |-> CombineBooks(d)]

NoTickCall == [called |-> FALSE, value |-> [type |-> "number", value |-> 0], text |-> ""]

\* Weekly statistics without a week.
NoWeeks == [weeks |-> << >>]

\* The book chart is mounted with a BibleStats prop.
MountBookChart ==
    /\ \E d \in BibleStats :
          /\ data = Mount(d).data
          /\ combinedBooks = Mount(d).combinedBooks
    /\ viewMode = "verses"
    /\ hookCall = NoHookCall
    /\ tooltipCall = NoTooltipCall

Init ==
    /\ MountBookChart
    /\ weeklyStats = NoWeeks
    /\ tickCall = NoTickCall

\* The segmented control sets the bound value to the value of an option.
SelectViewMode(option) ==
    /\ viewMode' = option.value
    /\ UNCHANGED <<data, combinedBooks, hookCall, tooltipCall, weeklyStats, tickCall>>

\* The engine draws the desktop chart and invokes the hook with the options
\* the component gave for the plugin.
DrawCombinedChart ==
    /\ hookCall' = [called |-> TRUE,
                    labels |-> Len(combinedChartData.labels),
                    options |-> combinedOptions.plugins.testamentDivider,
                    canvas |-> afterDatasetsDraw(Chart, combinedOptions.plugins.testamentDivider)]
    /\ UNCHANGED <<data, viewMode, combinedBooks, tooltipCall, weeklyStats, tickCall>>

\* The engine draws some chart of the page and invokes the hook with that
\* chart's options for the plugin; labels is the number of that chart's labels.
DrawChart(labels, options) ==
    /\ hookCall' = [called |-> TRUE,
                    labels |-> labels,
                    options |-> options,
                    canvas |-> afterDatasetsDraw(Chart, options)]
    /\ UNCHANGED <<data, viewMode, combinedBooks, tooltipCall, weeklyStats, tickCall>>

\* The engine asks the desktop chart's footer callback for the footer.
ShowCombinedTooltip(items) ==
    /\ tooltipCall' = [called |-> TRUE, callback |-> "footer", chart |-> "desktop",
                       items |-> items,
                       viewMode |-> viewMode, text |-> combinedFooter(items)]
    /\ UNCHANGED <<data, viewMode, combinedBooks, hookCall, weeklyStats, tickCall>>

\* The engine asks a mobile chart's footer callback for the footer.
ShowMobileTooltip(items) ==
    /\ tooltipCall' = [called |-> TRUE, callback |-> "footer", chart |-> "mobile",
                       items |-> items,
                       viewMode |-> viewMode, text |-> mobileFooter(items)]
    /\ UNCHANGED <<data, viewMode, combinedBooks, hookCall, weeklyStats, tickCall>>

\* The engine asks the desktop chart's label callback for the line of one
\* dataset; the context is kept as the only item of the call.
ShowCombinedLabel(context) ==
    /\ tooltipCall' = [called |-> TRUE, callback |-> "label", chart |-> "desktop",
                       items |-> << context >>,
                       viewMode |-> viewMode, text |-> combinedLabel(context)]
    /\ UNCHANGED <<data, viewMode, combinedBooks, hookCall, weeklyStats, tickCall>>

\* The engine asks a mobile chart's label callback for the line of one dataset.
ShowMobileLabel(context) ==
    /\ tooltipCall' = [called |-> TRUE, callback |-> "label", chart |-> "mobile",
                       items |-> << context >>,
                       viewMode |-> viewMode, text |-> mobileLabel(context)]
    /\ UNCHANGED <<data, viewMode, combinedBooks, hookCall, weeklyStats, tickCall>>

\* The engine asks the church chart's footer callback for the footer.
ShowChurchFooter(items) ==
    /\ tooltipCall' = [called |-> TRUE, callback |-> "footer", chart |-> "church",
                       items |-> items,
                       viewMode |-> viewMode, text |-> churchFooter(items)]
    /\ UNCHANGED <<data, viewMode, combinedBooks, hookCall, weeklyStats, tickCall>>

\* The engine asks the church chart's label callback for the line of one dataset.
ShowChurchLabel(context) ==
    /\ tooltipCall' = [called |-> TRUE, callback |-> "label", chart |-> "church",
                       items |-> << context >>,
                       viewMode |-> viewMode, text |-> churchLabel(context)]
    /\ UNCHANGED <<data, viewMode, combinedBooks, hookCall, weeklyStats, tickCall>>

\* The engine formats a tick of the y axis of the study chart.
StudyTick(value) ==
    /\ tickCall' = [called |-> TRUE, value |-> value, text |-> studyTickCallback(value)]
    /\ UNCHANGED <<data, viewMode, combinedBooks, hookCall, tooltipCall, weeklyStats>>

Select == \E i \in DOMAIN viewModeOptions : SelectViewMode(viewModeOptions[i])

\* The component alone: the selector is its only event.
Next == Select

Spec == Init /\ [][Next]_vars

\* The component with the charting engine drawing: the divider hook on the
\* options of the component's chart and of any other chart of the page.
InitDivider ==
    /\ Init
    /\ Consistent(data.old_testament)
    /\ Consistent(data.new_testament)

DrawAny == \E options \in DividerOptions : DrawChart(MaxLabels, options)

NextDivider ==
    \/ Select
    \/ DrawCombinedChart
    \/ DrawAny

SpecDivider == InitDivider /\ [][NextDivider]_vars

\* The footer callbacks on any list of tooltip items.
ExampleData ==
    [old_testament |->
        [book_stats |-> << [book |-> "Genesis"] @@
            [mature_verses |-> 2, young_verses |-> 0, learning_verses |-> 5,
             mature_passages |-> 0, young_passages |-> 0, learning_passages |-> 0] >>,
         mature_verses |-> 2, young_verses |-> 0, learning_verses |-> 5,
         mature_passages |-> 0, young_passages |-> 0, learning_passages |-> 0],
     new_testament |->
        [book_stats |-> << [book |-> "Matthew"] @@
            [mature_verses |-> 0, young_verses |-> 0, learning_verses |-> 0,
             mature_passages |-> 3, young_passages |-> 0, learning_passages |-> 0] >>,
         mature_verses |-> 0, young_verses |-> 0, learning_verses |-> 0,
         mature_passages |-> 3, young_passages |-> 0, learning_passages |-> 0]]

InitTooltip ==
    /\ Init
    /\ data = ExampleData

ShowCombined == \E items \in TooltipItems : ShowCombinedTooltip(items)

ShowMobile == \E items \in TooltipItems : ShowMobileTooltip(items)

LabelCombined == \E context \in TooltipContexts : ShowCombinedLabel(context)

LabelMobile == \E context \in TooltipContexts : ShowMobileLabel(context)

NextTooltip ==
    \/ Select
    \/ ShowCombined
    \/ ShowMobile
    \/ LabelCombined
    \/ LabelMobile

SpecTooltip == InitTooltip /\ [][NextTooltip]_vars

\* The church chart with any weekly statistics; the engine shows the tooltip
\* of a hovered week with the values of the chart's datasets at that week.
InitChurch ==
    /\ MountBookChart
    /\ data = ExampleData
    /\ weeklyStats \in FaithWeeklyStats
    /\ tickCall = NoTickCall

ChurchItemsAt(w) ==
    [k \in DOMAIN churchChartData.datasets |->
        [parsed |-> [y |-> Num(churchChartData.datasets[k].data[w])]]]

FooterChurch == \E w \in DOMAIN weeklyStats.weeks : ShowChurchFooter(ChurchItemsAt(w))

LabelChurch ==
    \E w \in DOMAIN weeklyStats.weeks, k \in DOMAIN churchChartData.datasets :
        ShowChurchLabel([dataset |-> [label |-> churchChartData.datasets[k].label],
                         parsed |-> [y |-> Num(churchChartData.datasets[k].data[w])]])

NextChurch ==
    \/ FooterChurch
    \/ LabelChurch

SpecChurch == InitChurch /\ [][NextChurch]_vars

\* The study chart: the engine formats the ticks of its y axis.
TickStudy == \E value \in TickValues : StudyTick(value)

NextStudy == TickStudy

SpecStudy == InitTooltip /\ [][NextStudy]_vars

\* Inputs in which a numeric field may be missing: the example input with
\* tier totals of a testament left out, and weekly statistics of at most
\* one week.
Without(rec, fields) == [f \in DOMAIN rec \ fields |-> rec[f]]

PartialBibleStats ==
    { [old_testament |-> Without(ExampleData.old_testament, ot),
       new_testament |-> Without(ExampleData.new_testament, nt)] :
        ot \in SUBSET {"learning_verses", "mature_passages"},
        nt \in SUBSET {"young_verses"} }

InitDefaults ==
    /\ data \in PartialBibleStats
    /\ combinedBooks = Mount(data).combinedBooks
    /\ viewMode = "verses"
    /\ hookCall = NoHookCall
    /\ tooltipCall = NoTooltipCall
    /\ weeklyStats \in { ws \in FaithWeeklyStats : Len(ws.weeks) <= 1 }
    /\ tickCall = NoTickCall

FooterChurchAny == \E items \in TooltipItems : ShowChurchFooter(items)

NextDefaults ==
    \/ Select
    \/ FooterChurchAny

SpecDefaults == InitDefaults /\ [][NextDefaults]_vars

(***************************************************************************)
(* Vocabulary of the properties.                                           *)
(***************************************************************************)
Tiers == <<"mature", "young", "learning">>

\* The book records of the input, OT first, as the input lists them.
InputBooks == data.old_testament.book_stats \o data.new_testament.book_stats

InputNames(testament) == { testament.book_stats[i].book : i \in DOMAIN testament.book_stats }

\* A tier of a book in unit m is greater than zero.
HasTierIn(book, m) == \E t \in {"mature", "young", "learning"} : book[t \o "_" \o m] > 0

Labels == combinedChartData.labels

Visible(name) == \E i \in DOMAIN Labels : Labels[i] = name

\* The input record of the book of that name.
BookNamed(name) == CHOOSE b \in { InputBooks[i] : i \in DOMAIN InputBooks } : b.book = name

\* The sum of the three tiers of a book in unit m.
BookTotal(book, m) ==
    book["mature_" \o m] + book["young_" \o m] + book["learning_" \o m]

(***************************************************************************)
(* C1.  In either view mode the labels of the combined chart are exactly   *)
(* the books of the input, OT and NT, with a tier greater than zero in the *)
(* unit of the view mode, each once; a book whose three tiers in that unit *)
(* are zero is absent whatever its values in the other unit.               *)
(***************************************************************************)
C1_LabelsAreBooksWithData ==
    LET input == InputBooks
        labels == Labels
        shown == { input[i].book :
                     i \in { j \in DOMAIN input : HasTierIn(input[j], viewMode) } }
    IN  /\ { labels[i] : i \in DOMAIN labels } = shown
        /\ Len(labels) = Cardinality(shown)

C1_Witness ==
    /\ viewMode = "passages"
    /\ \E i, j \in DOMAIN InputBooks :
          /\ HasTierIn(InputBooks[i], "verses")
          /\ ~HasTierIn(InputBooks[i], "passages")
          /\ ~Visible(InputBooks[i].book)
          /\ HasTierIn(InputBooks[j], "passages")
          /\ Visible(InputBooks[j].book)

(***************************************************************************)
(* C2.  Through any sequence of selections of the view mode, a book with   *)
(* verses (0,0,0) and passages (3,0,0) is visible exactly in the states    *)
(* where the view mode is passages, and every change of the view mode      *)
(* changes whether it is visible.                                          *)
(***************************************************************************)
PassagesOnly(book) ==
    /\ book.mature_verses = 0 /\ book.young_verses = 0 /\ book.learning_verses = 0
    /\ book.mature_passages = 3 /\ book.young_passages = 0 /\ book.learning_passages = 0

C2_VisibleByCurrentMode ==
    /\ [](\A i \in DOMAIN InputBooks :
            PassagesOnly(InputBooks[i]) =>
                (Visible(InputBooks[i].book) <=> viewMode = "passages"))
    /\ [][viewMode' # viewMode =>
            \A i \in DOMAIN InputBooks :
                PassagesOnly(InputBooks[i]) =>
                    (Visible(InputBooks[i].book)' # Visible(InputBooks[i].book))]_vars

C2_Witness ==
    /\ viewMode = "passages"
    /\ \E i \in DOMAIN InputBooks :
          /\ PassagesOnly(InputBooks[i])
          /\ Visible(InputBooks[i].book)
    /\ \E i \in DOMAIN InputBooks :
          /\ HasTierIn(InputBooks[i], "verses")
          /\ ~Visible(InputBooks[i].book)

(***************************************************************************)
(* C3 as stated.  Every tier cell of the table, for OT and for NT in the   *)
(* active unit, equals the sum of that tier over all book records of the   *)
(* testament.                                                              *)
(***************************************************************************)
C3_TotalsAreBookSums ==
    /\ desktopTable[1].learning = SumField(data.old_testament.book_stats, "learning_" \o viewMode)
    /\ desktopTable[1].young = SumField(data.old_testament.book_stats, "young_" \o viewMode)
    /\ desktopTable[1].mature = SumField(data.old_testament.book_stats, "mature_" \o viewMode)
    /\ desktopTable[2].learning = SumField(data.new_testament.book_stats, "learning_" \o viewMode)
    /\ desktopTable[2].young = SumField(data.new_testament.book_stats, "young_" \o viewMode)
    /\ desktopTable[2].mature = SumField(data.new_testament.book_stats, "mature_" \o viewMode)

(***************************************************************************)
(* C3 amended.  Every tier cell of the table, for OT and for NT, equals    *)
(* the aggregate field of that testament and tier of the input in the      *)
(* active unit, whichever books are filtered out of the chart; it equals   *)
(* the sum of that tier over all book records of the testament, the        *)
(* filtered ones included, when the aggregates of that testament in the    *)
(* input are the sums of its book records.                                 *)
(***************************************************************************)
C3_TotalsAreInputAggregates ==
    \A k \in 1..2 :
        LET testament == IF k = 1 THEN data.old_testament ELSE data.new_testament
        IN  \A t \in {"learning", "young", "mature"} :
                /\ desktopTable[k][t] = testament[t \o "_" \o viewMode]
                /\ mobileTable[CHOOSE r \in 1..3 : <<"learning", "young", "mature">>[r] = t]
                       [IF k = 1 THEN "ot" ELSE "nt"] = testament[t \o "_" \o viewMode]
                /\ Consistent(testament) =>
                       desktopTable[k][t] = SumField(testament.book_stats, t \o "_" \o viewMode)

\* Passages are shown, an OT book with verses is filtered out of the chart
\* while the OT row still has a total, and the NT aggregates are not the
\* sums of the NT book records.
C3_Witness ==
    /\ viewMode = "passages"
    /\ Consistent(data.old_testament)
    /\ ~Consistent(data.new_testament)
    /\ desktopTable[1].total > 0
    /\ \E i \in DOMAIN data.old_testament.book_stats :
          /\ HasTierIn(data.old_testament.book_stats[i], "verses")
          /\ ~Visible(data.old_testament.book_stats[i].book)

(***************************************************************************)
(* C4.  In either view mode and for any input, learning + young + mature   *)
(* equals total in the OT row, the NT row and the total row of the table,  *)
(* in the desktop layout (rows) and in the mobile layout (columns).        *)
(***************************************************************************)
C4_TierSumsEqualTotals ==
    /\ \A k \in 1..3 :
          desktopTable[k].learning + desktopTable[k].young + desktopTable[k].mature
              = desktopTable[k].total
    /\ \A c \in {"ot", "nt", "total"} :
          mobileTable[1][c] + mobileTable[2][c] + mobileTable[3][c] = mobileTable[4][c]

C4_Witness ==
    /\ viewMode = "passages"
    /\ desktopTable[1].mature > 0
    /\ desktopTable[2].learning > 0
    /\ desktopTable[3].young > 0
    /\ desktopTable[3].total > desktopTable[1].total
    /\ desktopTable[3].total > desktopTable[2].total

(***************************************************************************)
(* C5 as stated.  When no book has data in the selected view mode, the     *)
(* label and value arrays are empty and no chart is mounted, neither the   *)
(* mobile OT and NT charts nor the desktop combined chart.                 *)
(***************************************************************************)
C5_NoChartWhenEmpty ==
    (\A i \in DOMAIN InputBooks : ~HasTierIn(InputBooks[i], viewMode)) =>
        /\ combinedChartData.labels = << >>
        /\ \A k \in 1..3 : combinedChartData.datasets[k].data = << >>
        /\ mountedCharts = << >>

(***************************************************************************)
(* C6.  Whenever the divider hook has run, it performed no canvas          *)
(* operation if its ntStartIndex option was undefined, -1 or 0, and        *)
(* otherwise it drew exactly one line: one stroke of one path of one       *)
(* moveTo and one lineTo at the same x, after setting a dash pattern.      *)
(***************************************************************************)
CanvasOps(canvas, name) == { i \in DOMAIN canvas : canvas[i].op = name }

C6_DividerDrawsNothingOrOneLine ==
    hookCall.called =>
        LET options == hookCall.options
            canvas == hookCall.canvas
            skipped == \/ "ntStartIndex" \notin DOMAIN options
                       \/ options.ntStartIndex = -1
                       \/ options.ntStartIndex = 0
        IN  IF skipped
            THEN canvas = << >>
            ELSE /\ Cardinality(CanvasOps(canvas, "stroke")) = 1
                 /\ Cardinality(CanvasOps(canvas, "beginPath")) = 1
                 /\ Cardinality(CanvasOps(canvas, "moveTo")) = 1
                 /\ Cardinality(CanvasOps(canvas, "lineTo")) = 1
                 /\ Cardinality(CanvasOps(canvas, "setLineDash")) = 1
                 /\ \A d \in CanvasOps(canvas, "setLineDash"), m \in CanvasOps(canvas, "moveTo"),
                       l \in CanvasOps(canvas, "lineTo"), k \in CanvasOps(canvas, "stroke") :
                       /\ canvas[d].value # << >>
                       /\ d < m /\ m < l /\ l < k
                       /\ canvas[m].x = canvas[l].x
                       /\ canvas[m].y # canvas[l].y

\* The hook has drawn the divider of the component's own chart, between an
\* OT bar and an NT bar.
C6_Witness ==
    /\ hookCall.called
    /\ hookCall.options = [ntStartIndex |-> ntStartIndex]
    /\ ntStartIndex >= 1
    /\ Cardinality(CanvasOps(hookCall.canvas, "stroke")) = 1

C8_LabelsKeepInputOrder ==
    LET input == InputBooks
        labels == Labels
        position == [i \in DOMAIN labels |->
                        { j \in DOMAIN input : input[j].book = labels[i] }]
    IN  /\ \A i \in DOMAIN labels : Cardinality(position[i]) = 1
        /\ \A i, j \in DOMAIN labels :
              i < j => \A a \in position[i], b \in position[j] : a < b
        /\ \A i \in DOMAIN labels :
              \A a \in position[i] :
                  (a <= Len(data.old_testament.book_stats)) <=> (i <= Len(otBooksFiltered))

\* Three bars whose totals neither rise nor fall along the chart, so that
\* an order by value would differ from the order shown.
C8_Witness ==
    /\ viewMode = "passages"
    /\ Len(Labels) >= 3
    /\ \E i, j, k \in DOMAIN Labels :
          /\ i < j /\ j < k
          /\ BookTotal(BookNamed(Labels[i]), viewMode) > BookTotal(BookNamed(Labels[j]), viewMode)
          /\ BookTotal(BookNamed(Labels[j]), viewMode) < BookTotal(BookNamed(Labels[k]), viewMode)

(***************************************************************************)
(* C9.  In every state each per-bar array of each dataset of the combined  *)
(* chart (data, backgroundColor, borderColor, hoverBackgroundColor) is as  *)
(* long as the labels, and its entry at an index comes from the book named *)
(* by the label at that index: the book's value of the dataset's tier in   *)
(* the active unit, and the colours of the book's testament.               *)
(***************************************************************************)
C9_ArraysAlignedWithLabels ==
    LET chart == combinedChartData
        labels == chart.labels
        input == InputBooks
    IN  \A k \in 1..3 :
            LET ds == chart.datasets[k]
                tier == Tiers[k]
            IN  /\ Len(ds.data) = Len(labels)
                /\ Len(ds.backgroundColor) = Len(labels)
                /\ Len(ds.borderColor) = Len(labels)
                /\ Len(ds.hoverBackgroundColor) = Len(labels)
                /\ \A i \in DOMAIN labels :
                      LET book == CHOOSE b \in { input[j] : j \in DOMAIN input } :
                                      b.book = labels[i]
                          colors == IF labels[i] \in InputNames(data.old_testament)
                                    THEN chartColors.book.oldTestament
                                    ELSE chartColors.book.newTestament
                      IN  /\ ds.data[i] = book[tier \o "_" \o viewMode]
                          /\ ds.backgroundColor[i] = colors[tier]
                          /\ ds.borderColor[i] = colors.border
                          /\ ds.hoverBackgroundColor[i] = colors.hover

C9_Witness ==
    /\ viewMode = "passages"
    /\ Len(Labels) >= 2
    /\ Len(Labels) < Len(InputBooks)
    /\ \E i, j \in DOMAIN Labels :
          /\ combinedChartData.datasets[1].backgroundColor[i] = chartColors.book.oldTestament.mature
          /\ combinedChartData.datasets[1].backgroundColor[j] = chartColors.book.newTestament.mature
          /\ combinedChartData.datasets[1].data[j] = 3

(***************************************************************************)
(* C10.  A tooltip footer callback returns "Total: <sum> <unit>", where    *)
(* <sum> is the plain sum of the parsed y values of the items, null        *)
(* counting as 0 and zeros included, and <unit> the unit of the view mode  *)
(* at the call; for the values 2, 0, 5 it returns "Total: 7 <unit>".       *)
(***************************************************************************)
RECURSIVE PlainSum(_)
PlainSum(ys) ==
    IF ys = << >> THEN 0
    ELSE (IF Head(ys) = null THEN 0 ELSE Head(ys)[1]) + PlainSum(Tail(ys))

C10_FooterIsPlainSum ==
    (tooltipCall.called /\ tooltipCall.callback = "footer") =>
        LET ys == [i \in DOMAIN tooltipCall.items |-> tooltipCall.items[i].parsed.y]
        IN  /\ tooltipCall.text =
                  "Total: " \o ToString(PlainSum(ys)) \o " " \o tooltipCall.viewMode
            /\ ys = << Num(2), Num(0), Num(5) >> =>
                  tooltipCall.text = (IF tooltipCall.viewMode = "verses"
                                      THEN "Total: 7 verses"
                                      ELSE "Total: 7 passages")

C10_Witness ==
    /\ tooltipCall.called
    /\ tooltipCall.callback = "footer"
    /\ tooltipCall.items = << [parsed |-> [y |-> Num(2)]], [parsed |-> [y |-> Num(0)]],
                              [parsed |-> [y |-> Num(5)]] >>
    /\ tooltipCall.text = "Total: 7 passages"

(***************************************************************************)
(* C11.  In every state reached by selections of the view mode, the unit   *)
(* word that the tooltip label and footer callbacks of the combined and of *)
(* the mobile options write, and the title of their y axes, are those of   *)
(* the current view mode: verses and Verses, or passages and Passages.     *)
(***************************************************************************)
C11_UnitFollowsViewMode ==
    LET items == << [parsed |-> [y |-> Num(2)]] >>
        context == [dataset |-> [label |-> "Mature"], parsed |-> [y |-> Num(2)]]
        word == IF viewMode = "verses" THEN "verses" ELSE "passages"
        title == IF viewMode = "verses" THEN "Verses" ELSE "Passages"
    IN  /\ viewMode \in {"verses", "passages"}
        /\ combinedFooter(items) = "Total: 2 " \o word
        /\ mobileFooter(items) = "Total: 2 " \o word
        /\ combinedLabel(context) = "Mature: 2 " \o word
        /\ mobileLabel(context) = "Mature: 2 " \o word
        /\ combinedOptions.scales.y.title.text = title
        /\ mobileOptions.scales.y.title.text = title

C11_Witness ==
    /\ viewMode = "passages"
    /\ combinedFooter(<< [parsed |-> [y |-> Num(5)]] >>) = "Total: 5 passages"
    /\ mobileLabel([dataset |-> [label |-> "Young"], parsed |-> [y |-> Num(5)]])
           = "Young: 5 passages"
    /\ combinedOptions.scales.y.title.text = "Passages"
    /\ mobileOptions.scales.y.title.text = "Passages"

(***************************************************************************)
(* C12.  A tooltip label callback returns "<series>: <value> <unit>" for   *)
(* the hovered dataset: <series> is the label of the dataset, or the empty *)
(* string when it has none, <value> its parsed y, or 0 when that is null,  *)
(* and <unit> the unit of the view mode at the call.                       *)
(***************************************************************************)
C12_LabelFormat ==
    (tooltipCall.called /\ tooltipCall.callback = "label") =>
        LET context == tooltipCall.items[1]
            series == IF "label" \in DOMAIN context.dataset THEN context.dataset.label ELSE ""
            y == context.parsed.y
            value == IF y = null THEN "0" ELSE ToString(y[1])
        IN  tooltipCall.text = series \o ": " \o value \o " " \o tooltipCall.viewMode

\* The callback has run on a dataset without a label and a null value while
\* passages were shown.
C12_Witness ==
    /\ tooltipCall.called
    /\ tooltipCall.callback = "label"
    /\ "label" \notin DOMAIN tooltipCall.items[1].dataset
    /\ tooltipCall.items[1].parsed.y = null
    /\ tooltipCall.text = ": 0 passages"

(***************************************************************************)
(* C13.  Every derived value of the book chart (labels, series values,     *)
(* divider index, table totals, unit label) is a function of the input     *)
(* data and of the current view mode only: in every state reached by any   *)
(* sequence of selections the derived values are those that DerivedOf      *)
(* computes from data and viewMode alone, so two runs with the same data   *)
(* that end in the same view mode show the same values and none is stale.  *)
(***************************************************************************)
\* The derived values as the component holds them in the current state.
Derived ==
    LET chart == combinedChartData
    IN  [labels |-> chart.labels,
         series |-> [k \in 1..3 |-> chart.datasets[k].data],
         divider |-> ntStartIndex,
         totals |-> << <<otLearning, otYoung, otMature, otTotal>>,
                       <<ntLearning, ntYoung, ntMature, ntTotal>>,
                       <<totalLearning, totalYoung, totalMature, grandTotal>> >>,
         unit |-> unitLabel]

\* The derived values as a function of an input d and a view mode m.
DerivedOf(d, m) ==
    LET all == d.old_testament.book_stats \o d.new_testament.book_stats
        shown == SelectSeq(all, LAMBDA b : HasTierIn(b, m))
        otShown == Len(SelectSeq(d.old_testament.book_stats, LAMBDA b : HasTierIn(b, m)))
        row(t) == << t["learning_" \o m], t["young_" \o m], t["mature_" \o m],
                     t["learning_" \o m] + t["young_" \o m] + t["mature_" \o m] >>
        ot == row(d.old_testament)
        nt == row(d.new_testament)
    IN  [labels |-> [i \in DOMAIN shown |-> shown[i].book],
         series |-> [k \in 1..3 |-> [i \in DOMAIN shown |-> shown[i][Tiers[k] \o "_" \o m]]],
         divider |-> IF otShown < Len(shown) THEN otShown ELSE -1,
         totals |-> << ot, nt,
                       << ot[1] + nt[1], ot[2] + nt[2], ot[3] + nt[3],
                          ot[1] + nt[1] + ot[2] + nt[2] + ot[3] + nt[3] >> >>,
         unit |-> m]

C13_DerivedFromDataAndMode ==
    /\ combinedBooks = CombineBooks(data)
    /\ Derived = DerivedOf(data, viewMode)

\* Passages are shown, and the labels, the divider index and the totals of
\* this input differ between the two modes, so a value kept from the verses
\* of the mount would show.
C13_Witness ==
    LET verses == DerivedOf(data, "verses")
    IN  /\ viewMode = "passages"
        /\ Derived.labels # verses.labels
        /\ Derived.divider # verses.divider
        /\ Derived.divider > 0
        /\ Derived.totals # verses.totals

(***************************************************************************)
(* C14.  No operation of the book chart modifies the input: after the      *)
(* combined list is built, and through every selection of a view mode with *)
(* its filtering, series and totals, data is a BibleStats value as the     *)
(* caller passed it, none of its book records has a testament field, and   *)
(* no step changes it; the combined list holds copies that have the field  *)
(* and otherwise equal the input records.                                  *)
(***************************************************************************)
C14_InputNotModified ==
    /\ [](LET input == InputBooks
          IN  /\ data \in BibleStats
              /\ \A i \in DOMAIN input : "testament" \notin DOMAIN input[i]
              /\ Len(combinedBooks) = Len(input)
              /\ \A i \in DOMAIN combinedBooks :
                    /\ "testament" \in DOMAIN combinedBooks[i]
                    /\ \A f \in DOMAIN input[i] : combinedBooks[i][f] = input[i][f])
    /\ [][data' = data /\ combinedBooks' = combinedBooks]_vars

\* Passages were selected, the chart shows fewer books than the input has,
\* and the combined list carries both tags.
C14_Witness ==
    /\ viewMode = "passages"
    /\ Len(Labels) > 0
    /\ Len(Labels) < Len(InputBooks)
    /\ \E i, j \in DOMAIN combinedBooks :
          combinedBooks[i].testament = "OT" /\ combinedBooks[j].testament = "NT"
    /\ grandTotal > 0

(***************************************************************************)
(* C15.  Whenever the divider hook has run with an ntStartIndex that is    *)
(* undefined or out of range for the labels of its chart (negative, or     *)
(* greater than or equal to the number of labels), it performed no canvas  *)
(* operation.                                                              *)
(***************************************************************************)
C15_OutOfRangeDrawsNothing ==
    hookCall.called =>
        LET options == hookCall.options
            outOfRange == \/ "ntStartIndex" \notin DOMAIN options
                          \/ options.ntStartIndex < 0
                          \/ options.ntStartIndex >= hookCall.labels
        IN  outOfRange => hookCall.canvas = << >>

(***************************************************************************)
(* C17.  The view mode is verses in the state after mounting, it is always *)
(* one of verses and passages, and a step that changes it is the selector  *)
(* setting it to one of these two values and changing nothing else; the    *)
(* tooltip callbacks leave it as it is.                                    *)
(***************************************************************************)
C17_ViewModeTwoValues ==
    /\ viewMode = "verses"
    /\ [](viewMode \in {"verses", "passages"})
    /\ [][viewMode' # viewMode =>
              /\ viewMode' \in {"verses", "passages"}
              /\ \E i \in DOMAIN viewModeOptions : viewMode' = viewModeOptions[i].value
              /\ UNCHANGED <<data, combinedBooks, hookCall, tooltipCall>>]_vars

\* The selector has set passages, and a tooltip callback has run since
\* without changing it.
C17_Witness ==
    /\ viewMode = "passages"
    /\ tooltipCall.called
    /\ tooltipCall.viewMode = "passages"

(***************************************************************************)
(* C18.  In every view mode the combined chart and the two mobile charts   *)
(* agree: the labels of the combined chart are the labels of the mobile OT *)
(* chart followed by those of the mobile NT chart, and for each tier the   *)
(* values of the combined chart are the values of the OT chart followed by *)
(* those of the NT chart, so each book has the same value in both.         *)
(***************************************************************************)
C18_CombinedAgreesWithMobile ==
    LET combined == combinedChartData
        ot == otChartData
        nt == ntChartData
    IN  /\ combined.labels = ot.labels \o nt.labels
        /\ \A k \in 1..3 :
              /\ combined.datasets[k].label = ot.datasets[k].label
              /\ combined.datasets[k].label = nt.datasets[k].label
              /\ combined.datasets[k].data = ot.datasets[k].data \o nt.datasets[k].data
              /\ \A i \in DOMAIN ot.labels :
                    combined.datasets[k].data[i] = ot.datasets[k].data[i]
              /\ \A i \in DOMAIN nt.labels :
                    combined.datasets[k].data[Len(ot.labels) + i] = nt.datasets[k].data[i]

\* Passages are shown, both mobile charts have a book, a book of the input
\* is filtered out, and an NT book is plotted with a value above zero.
C18_Witness ==
    /\ viewMode = "passages"
    /\ Len(otChartData.labels) > 0
    /\ Len(ntChartData.labels) > 0
    /\ Len(combinedChartData.labels) < Len(InputBooks)
    /\ \E k \in 1..3 : ntChartData.datasets[k].data[1] > 0

(***************************************************************************)
(* C19.  The church chart has a dataset for a day of the week exactly when *)
(* some week has more than zero minutes on that day; the datasets are in   *)
(* Sunday-to-Saturday order; each has one value per week, in week order;   *)
(* and each has the name and the colours of its own day of the week, the   *)
(* colours of the day's index and not of the position after the filter.    *)
(***************************************************************************)
\* The minutes of the 0-based day d in week w of the input, 0 when the entry
\* is missing or not a number.
ChurchMinutes(w, d) ==
    LET minutes == weeklyStats.weeks[w].at_church_daily_minutes
    IN  IF d + 1 \in DOMAIN minutes /\ Len(minutes[d + 1]) = 1
        THEN minutes[d + 1][1]
        ELSE 0

\* The 0-based day of the week of a day name.
DayIndexOf(name) == (CHOOSE i \in DOMAIN dayNames : dayNames[i] = name) - 1

C19_ChurchDatasetsByDay ==
    LET datasets == churchChartData.datasets
        weeks == weeklyStats.weeks
    IN  /\ \A d \in 0..6 :
              (\E k \in DOMAIN datasets : datasets[k].label = dayNames[d + 1])
                  <=> (\E w \in DOMAIN weeks : ChurchMinutes(w, d) > 0)
        /\ \A k \in DOMAIN datasets :
              /\ datasets[k].label \in { dayNames[i] : i \in DOMAIN dayNames }
              /\ Len(datasets[k].data) = Len(weeks)
              /\ \A w \in DOMAIN weeks :
                    datasets[k].data[w] = ChurchMinutes(w, DayIndexOf(datasets[k].label))
              /\ datasets[k].backgroundColor = dayColors[DayIndexOf(datasets[k].label) + 1].bg
              /\ datasets[k].borderColor = dayColors[DayIndexOf(datasets[k].label) + 1].border
              /\ datasets[k].hoverBackgroundColor = dayColors[DayIndexOf(datasets[k].label) + 1].hover
        /\ \A j, k \in DOMAIN datasets :
              j < k => DayIndexOf(datasets[j].label) < DayIndexOf(datasets[k].label)

\* Two weeks with minutes on Sunday and Wednesday only: Wednesday is the
\* second dataset and keeps the colour of the fourth day; a tooltip was shown.
C19_Witness ==
    /\ Len(weeklyStats.weeks) = 2
    /\ Len(churchChartData.datasets) = 2
    /\ churchChartData.datasets[1].label = "Sunday"
    /\ churchChartData.datasets[2].label = "Wednesday"
    /\ churchChartData.datasets[2].backgroundColor = "orange-500"
    /\ churchChartData.datasets[2].data = << 45, 0 >>
    /\ tooltipCall.called

(***************************************************************************)
(* C20.  Whenever the tick callback of the y axis of the weekly study      *)
(* chart has run, it returned the formatted hour label of the tick, a      *)
(* non-empty text, if the tick value is a whole multiple of 60 minutes,    *)
(* and the empty string for every other tick value, such as 30 and 90;     *)
(* a string tick value is treated as the number it writes.                 *)
(***************************************************************************)
\* The number written by a non-empty sequence of digits.
RECURSIVE DecimalValue(_)
DecimalValue(chars) ==
    IF chars = << >> THEN 0
    ELSE 10 * DecimalValue(SubSeq(chars, 1, Len(chars) - 1)) + DigitValue(chars[Len(chars)])

C20_StudyTickLabelsWholeHours ==
    tickCall.called =>
        LET value == tickCall.value
            text == tickCall.text
            numeric == \/ value.type = "number"
                       \/ /\ value.chars # << >>
                          /\ \A i \in DOMAIN value.chars : IsDigit(value.chars[i])
            minutes == IF value.type = "number" THEN value.value ELSE DecimalValue(value.chars)
        IN  /\ numeric =>
                  IF minutes % 60 = 0
                  THEN text = formatMinutesToHoursMinutes(minutes) /\ text # ""
                  ELSE text = ""
            /\ (numeric /\ minutes \in {30, 90}) => text = ""
            /\ (~numeric /\ text # "") =>
                  /\ parseFloat(value.chars) # NaN
                  /\ parseFloat(value.chars)[1] % 60 = 0
                  /\ text = formatMinutesToHoursMinutes(parseFloat(value.chars)[1])

\* The callback has labelled the string tick "120" with a non-empty text.
C20_Witness ==
    /\ tickCall.called
    /\ tickCall.value = [type |-> "string", chars |-> << "1", "2", "0" >>]
    /\ tickCall.text = formatMinutesToHoursMinutes(120)
    /\ tickCall.text # ""

(***************************************************************************)
(* C16.  A missing or undefined numeric field counts as 0 in every sum:    *)
(* each value of the church chart is the minutes of its day and week, or 0 *)
(* where the entry is missing; a footer of the church chart is the total   *)
(* of its items with null as 0; and every total of the book tables is a    *)
(* number, the sum of the tier totals of the input with a missing one      *)
(* counted as 0.                                                           *)
(***************************************************************************)
\* A tier total of a testament in unit m, 0 when the input does not have it.
TierOrZero(testament, t, m) ==
    IF (t \o "_" \o m) \in DOMAIN testament THEN testament[t \o "_" \o m] ELSE 0

C16_MissingCountsAsZero ==
    LET weeks == weeklyStats.weeks
        totals == tableTotals
        ot(t) == TierOrZero(data.old_testament, t, viewMode)
        nt(t) == TierOrZero(data.new_testament, t, viewMode)
    IN  /\ \A d \in 0..6 : \A w \in DOMAIN weeks :
              churchDataset(d).data[w] = ChurchMinutes(w, d)
        /\ (tooltipCall.called /\ tooltipCall.chart = "church" /\ tooltipCall.callback = "footer") =>
              tooltipCall.text =
                  "Total: " \o formatMinutesToHoursMinutes(
                      PlainSum([i \in DOMAIN tooltipCall.items |-> tooltipCall.items[i].parsed.y]))
        /\ totals.otTotal = Num(ot("learning") + ot("young") + ot("mature"))
        /\ totals.ntTotal = Num(nt("learning") + nt("young") + nt("mature"))
        /\ totals.totalLearning = Num(ot("learning") + nt("learning"))
        /\ totals.totalYoung = Num(ot("young") + nt("young"))
        /\ totals.totalMature = Num(ot("mature") + nt("mature"))
        /\ totals.grandTotal = Num(ot("learning") + ot("young") + ot("mature")
                                   + nt("learning") + nt("young") + nt("mature"))

====
